---------------------------- MODULE Spec2Model ----------------------------
(***************************************************************************)
(* A model of the Cloud Functions emulator                                 *)
(* (src/emulator/functionsEmulator.ts): the hub server's routes, the       *)
(* trigger registry, the work queue and worker pool it drives, the         *)
(* discovery run (loadTriggers) and the runtime's log stream (onData).     *)
(*                                                                         *)
(* These specifications share the module:                                  *)
(*   Spec          requests, registry, work queue, worker pool             *)
(*   SpecRegistry  the registry's operations and lookups                   *)
(*   SpecLog       one runtime process's output streams through onData     *)
(*   SpecDiscovery discovery runs against the registry                     *)
(*   SpecRefresh   discovery runs refreshing a pool that serves requests   *)
(*   SpecStop      stop() against requests and running work                *)
(*   SpecDatabase  registration of Realtime Database triggers              *)
(*   SpecHttps     HTTPS invocations proxied to the worker's socket        *)
(*   SpecStopFair  SpecStop with the promises stop() awaits settling       *)
(*   SpecGeneration connect, watched file changes and reloadTriggers       *)
(*   SpecPipes     the pipes of two runtime processes read interleaved     *)
(*   SpecSettle    discovery runs whose awaited promises settle            *)
(*   SpecFanout    fan-out subscribers set up by discovery                 *)
(***************************************************************************)
EXTENDS Integers, Sequences, FiniteSets, TLC

VARIABLES
    debugPort,          \* args.debugPort (0: not configured)
    triggers,           \* this.triggers: own properties, name -> [def, enabled]
    multicastTriggers,  \* this.multicastTriggers: key -> list of subscribers
    triggerGeneration,  \* this.triggerGeneration
    reqs,               \* the requests the hub has received, in order
    res,                \* per request, the responses written to it, in order
    tasks,              \* every unit of work submitted to the work queue
    queue,              \* WorkQueue: ids of the tasks still pending, in order
    stopped,            \* WorkQueue: the stopped flag
    workers,            \* RuntimeWorkerPool: every worker ever added
    lastLookup,         \* the last direct call of getTriggerDefinitionByName
    delivered,          \* per stream of one runtime process, the bytes read so far
    buffers,            \* per stream, the buffer onData keeps (buffer.value)
    emitted,            \* the "log" events emitted on the process's emitter
    kills,              \* how often onData called runtime.kill()
    loads,              \* the loadTriggers calls made, each with where it stands
    calls,              \* the registration calls sent to collaborator emulators
    emulators,          \* EmulatorRegistry: the collaborator emulators running
    lastAdded,          \* the last addRealtimeDatabaseTrigger call and its result
    stopRun,            \* where the call of stop() stands
    listening,          \* the hub server's listener is open
    wire,               \* per proxied HTTPS request: what was done to its response
    io                  \* the pipes of two runtime processes: buffers, chunks, records

hubVars == <<debugPort, triggers, multicastTriggers, triggerGeneration,
             reqs, res, tasks, queue, stopped, workers>>

lookupVars == <<lastLookup>>
logVars == <<delivered, buffers, emitted, kills>>

discoveryVars == <<loads, calls, emulators, lastAdded>>
stopVars == <<stopRun, listening>>
httpsVars == <<wire>>
pipeVars == <<io>>

\* What the hub's operations leave alone
otherVars == <<lookupVars, logVars, discoveryVars, stopVars, httpsVars, pipeVars>>

vars == <<hubVars, lookupVars, logVars, discoveryVars, stopVars, httpsVars, pipeVars>>

-----------------------------------------------------------------------------
(* Bounds of the model *)

MaxReqs == 2
MaxWorkers == 3
MaxSubscribers == 2
MaxFatals == 2
MaxBytes == 4
MaxLoads == 2
MaxCalls == 2
MaxEvents == 4
MaxChunks == 4

-----------------------------------------------------------------------------
(* The emulator's configuration and the trigger definitions user code may   *)
(* export.                                                                  *)

ProjectId == "demo"
DebugPorts == {0, 9229}

SERVICE_REALTIME_DATABASE == "firebaseio.com"
SERVICE_AUTH == "firebaseauth.googleapis.com"
SERVICE_FIRESTORE == "firestore.googleapis.com"
SERVICE_PUBSUB == "pubsub.googleapis.com"

\* An EmulatedTriggerDefinition.  resource is eventTrigger.resource, split at
\* its "/" into segments.
Definition(name, entryPoint, service, eventType, resource) ==
    [name |-> name, entryPoint |-> entryPoint,
     httpsTrigger |-> service = "https", eventTrigger |-> service # "https",
     service |-> service, eventType |-> eventType, resource |-> resource]

DefHttps == Definition("h", "h", "https", "", <<>>)
DefAuth == Definition("au", "au", SERVICE_AUTH, "user.create", <<"projects", ProjectId>>)
DefGroupedAuth ==
    Definition("grp-au", "grp.au", SERVICE_AUTH, "user.create", <<"projects", ProjectId>>)
DefDatabase ==
    Definition("db", "db", SERVICE_REALTIME_DATABASE, "ref.write",
               <<"projects", "_", "instances", "ns1", "refs", "foo", "bar">>)

\* resource projects/_/instances//refs/x: the namespace segment is empty
DefDatabaseNoNamespace ==
    Definition("nons", "nons", SERVICE_REALTIME_DATABASE, "ref.write",
               <<"projects", "_", "instances", "", "refs", "x">>)
DefFirestore ==
    Definition("fs", "fs", SERVICE_FIRESTORE, "document.write",
               <<"projects", ProjectId, "databases", "(default)", "documents", "x">>)

Defs == {DefHttps, DefAuth, DefGroupedAuth, DefDatabase}

\* Property names every JavaScript object inherits from Object.prototype;
\* `this.triggers` is a plain object literal, so `this.triggers[name]` finds
\* them although no record was ever stored under them.
ProtoNames == {"toString"}
ProtoValue == [inherited |-> TRUE]
Undefined == [undefined |-> TRUE]

EventTypes == {"user.create", "user.delete"}
MulticastKeys == {<<ProjectId, e>> : e \in EventTypes}


-----------------------------------------------------------------------------
(* The trigger registry *)

\* this.triggers[name]: an own property, else what Object.prototype gives,
\* else undefined.
TriggersGet(trigs, name) ==
    IF name \in DOMAIN trigs THEN trigs[name]
    ELSE IF name \in ProtoNames THEN ProtoValue
    ELSE Undefined

\* record.enabled and record.def of whatever TriggersGet found (an inherited
\* member has neither property: both read undefined).
RecordEnabled(record) ==
    IF record \in {ProtoValue, Undefined} THEN FALSE ELSE record.enabled
RecordDef(record) ==
    IF record \in {ProtoValue, Undefined} THEN Undefined ELSE record.def

getTriggerDefinitionByName(trigs, triggerName) ==
    LET record == TriggersGet(trigs, triggerName)
    IN  IF record = Undefined
        THEN [threw |-> TRUE, def |-> Undefined]   \* FirebaseError, message only
        ELSE [threw |-> FALSE, def |-> RecordDef(record)]

addTriggerRecord(trigs, def) ==
    [n \in DOMAIN trigs \cup {def.name} |->
        IF n = def.name THEN [def |-> def, enabled |-> TRUE] ELSE trigs[n]]

RECURSIVE setTriggersForTesting(_, _)
setTriggersForTesting(trigs, defs) ==
    IF defs = <<>> THEN trigs
    ELSE setTriggersForTesting(addTriggerRecord(trigs, Head(defs)), Tail(defs))

disableBackgroundTriggers_all(trigs) ==
    [n \in DOMAIN trigs |-> [trigs[n] EXCEPT !.enabled = FALSE]]

disableBackgroundTriggers(trigs) ==
    [n \in DOMAIN trigs |->
        IF trigs[n].def.eventTrigger
        THEN [trigs[n] EXCEPT !.enabled = FALSE]
        ELSE trigs[n]]

\* this.multicastTriggers[key] || []
Subscribers(mt, key) == IF key \in DOMAIN mt THEN mt[key] ELSE <<>>

addAuthTrigger(mt, projectId, definition) ==
    LET eventTriggerId == <<projectId, definition.eventType>>
    IN  [k \in DOMAIN mt \cup {eventTriggerId} |->
            IF k = eventTriggerId
            THEN Append(Subscribers(mt, k), definition.entryPoint)
            ELSE mt[k]]

-----------------------------------------------------------------------------
(* The execution mode, the work queue and the worker pool *)

ExecutionMode_alwaysAuto(port) == "AUTO"

\* constructor: SEQUENTIAL exactly when a debug port is configured
ExecutionMode(port) == IF port # 0 THEN "SEQUENTIAL" ELSE "AUTO"

\* A FunctionsRuntimeBundle, cut to the fields the emulator itself reads.
Bundle(triggerId, generation) ==
    [triggerId |-> triggerId, triggerGeneration |-> generation]
NoArgs == Bundle("~none~", 0)

\* getBaseBundle: the diagnostic bundle, trigger id ""
getBaseBundle(generation) == Bundle("", generation)

\* RuntimeWorkerPool, keyed by trigger id.
IdleWorkers(pool, triggerId) ==
    {w \in 1..Len(pool) : pool[w].key = triggerId /\ pool[w].state = "IDLE"}

readyForWork(pool, triggerId) == IdleWorkers(pool, triggerId) # {}

addWorker(pool, triggerId) ==
    Append(pool, [key |-> triggerId, state |-> "IDLE", lastArgs |-> NoArgs,
                  killed |-> FALSE, fatals |-> 0, socketReady |-> FALSE])

\* The worker submitWork hands the bundle to: the first idle one of the key.
submitWorker(pool, triggerId) ==
    CHOOSE w \in IdleWorkers(pool, triggerId) :
        \A v \in IdleWorkers(pool, triggerId) : w <= v

submitWork(pool, triggerId, frb) ==
    LET w == submitWorker(pool, triggerId)
    IN  [workers |-> [pool EXCEPT ![w].state = "BUSY", ![w].lastArgs = frb,
                                  ![w].socketReady = FALSE],
         worker |-> w]

invokeRuntime_sharedKey(pool, frb) ==
    IF pool # <<>> /\ \E w \in 1..Len(pool) : pool[w].state = "IDLE"
    THEN LET w == CHOOSE v \in 1..Len(pool) : pool[v].state = "IDLE"
         IN  submitWork(pool, pool[w].key, frb)
    ELSE submitWork(addWorker(pool, frb.triggerId), frb.triggerId, frb)

invokeRuntime_reuseBusy(pool, frb) ==
    IF \E w \in 1..Len(pool) : pool[w].key = frb.triggerId /\ pool[w].state = "BUSY"
    THEN LET w == CHOOSE v \in 1..Len(pool) :
                      pool[v].key = frb.triggerId /\ pool[v].state = "BUSY"
         IN  [workers |-> [pool EXCEPT ![w].lastArgs = frb], worker |-> w]
    ELSE IF readyForWork(pool, frb.triggerId)
    THEN submitWork(pool, frb.triggerId, frb)
    ELSE submitWork(addWorker(pool, frb.triggerId), frb.triggerId, frb)

\* invokeRuntime: reuse an idle worker of the bundle's trigger id, else spawn
\* a process and add it under that trigger id.
invokeRuntime(pool, frb) ==
    IF readyForWork(pool, frb.triggerId)
    THEN submitWork(pool, frb.triggerId, frb)
    ELSE submitWork(addWorker(pool, frb.triggerId), frb.triggerId, frb)

\* startFunctionRuntime: the base bundle with the trigger id filled in
startFunctionRuntime(pool, generation, triggerId) ==
    invokeRuntime(pool, [getBaseBundle(generation) EXCEPT !.triggerId = triggerId])

\* Whether invoking for triggerId stays within the model's worker bound.
CanInvoke(pool, triggerId) ==
    readyForWork(pool, triggerId) \/ Len(pool) < MaxWorkers

-----------------------------------------------------------------------------
(* The hub server: requests and routes *)

BackgroundPath(project, name) == <<"functions", "projects", project, "triggers", name>>
MulticastPath(project) == <<"functions", "projects", project, "trigger_multicast">>
HttpsPath(project, name) == <<project, "us-central1", name>>

LookupNames == {"h", "au", "db", "ghost", "toString"}

\* The requests the model sends: a method, the path's segments and the
\* body's eventType (read by the multicast route only).  Every body is a JSON
\* document: JSON.parse of the raw body always succeeds here.
Request(method, path, eventType) ==
    [method |-> method, path |-> path, eventType |-> eventType]

Requests ==
    {Request("POST", BackgroundPath(ProjectId, n), "") : n \in {"au", "ghost", "toString"}}
    \cup {Request("POST", BackgroundPath("other", "au"), ""),
          Request("POST", MulticastPath(ProjectId), "user.create"),
          Request("POST", MulticastPath("other"), "user.create"),
          Request("POST", MulticastPath(ProjectId), "user.delete"),
          Request("GET", HttpsPath(ProjectId, "h"), ""),
          Request("POST", HttpsPath(ProjectId, "ghost"), ""),
          Request("GET", HttpsPath(ProjectId, "h") \o <<"sub">>, ""),
          Request("GET", BackgroundPath(ProjectId, "au"), ""),
          Request("GET", <<ProjectId, "us-central1">>, "")}

\* hub.post(backgroundFunctionRoute)
MatchesBackground(req) ==
    /\ req.method = "POST"
    /\ Len(req.path) = 5
    /\ req.path[1] = "functions" /\ req.path[2] = "projects"
    /\ req.path[4] = "triggers"

\* hub.post(multicastFunctionRoute)
MatchesMulticast(req) ==
    /\ req.method = "POST"
    /\ Len(req.path) = 4
    /\ req.path[1] = "functions" /\ req.path[2] = "projects"
    /\ req.path[4] = "trigger_multicast"

\* hub.all(httpsFunctionRoutes): /{projectId}/:region/:trigger_name[/*]
MatchesHttps(req) ==
    /\ Len(req.path) >= 3
    /\ req.path[1] = ProjectId

Response(status, body) == [status |-> status, body |-> body]

Task(req, route, projectId, triggerId) ==
    [req |-> req, route |-> route, projectId |-> projectId,
     triggerId |-> triggerId, state |-> "pending", phase |-> "queued",
     worker |-> 0, fatal |-> FALSE]

\* WorkQueue.submit: append to the pending sequence
submit(q, id) == Append(q, id)

\* Receiving request req: it is stored, and its response list starts as
\* `responses`; `work` are the tasks the handler submits, in order.
Receive(req, responses, work) ==
    /\ listening
    /\ Len(reqs) < MaxReqs
    /\ reqs' = Append(reqs, req)
    /\ res' = Append(res, responses)
    /\ tasks' = tasks \o work
    /\ queue' = queue \o [i \in 1..Len(work) |-> Len(tasks) + i]
    /\ UNCHANGED <<debugPort, triggers, multicastTriggers, triggerGeneration,
                   stopped, workers, otherVars>>

backgroundHandler_ignoreEnabled(req) ==
    Receive(req, <<>>, <<Task(Len(reqs) + 1, "background", req.path[3], req.path[5])>>)

backgroundHandler(req) ==
    LET triggerId == req.path[5]
        projectId == req.path[3]
        record == TriggersGet(triggers, triggerId)
    IN  IF record # Undefined /\ ~RecordEnabled(record)
        THEN Receive(req, <<Response(204, "")>>, <<>>)
        ELSE Receive(req, <<>>,
                     <<Task(Len(reqs) + 1, "background", projectId, triggerId)>>)

httpsHandler(req) ==
    Receive(req, <<>>, <<Task(Len(reqs) + 1, "https", ProjectId, req.path[3])>>)

multicastHandler_skipLast(req) ==
    LET subs == Subscribers(multicastTriggers, <<ProjectId, req.eventType>>)
    IN  Receive(req, <<Response(200, "multicast_acknowledged")>>,
                [i \in 1..(IF Len(subs) > 1 THEN Len(subs) - 1 ELSE Len(subs)) |->
                    Task(Len(reqs) + 1, "multicast", req.path[3], subs[i])])

multicastHandler(req) ==
    LET subs == Subscribers(multicastTriggers, <<ProjectId, req.eventType>>)
        projectId == req.path[3]
    IN  Receive(req, <<Response(200, "multicast_acknowledged")>>,
                [i \in 1..Len(subs) |->
                    Task(Len(reqs) + 1, "multicast", projectId, subs[i])])

unknownHandler_enqueue(req) ==
    Receive(req, <<Response(404, "")>>,
            <<Task(Len(reqs) + 1, "https", ProjectId, "")>>)

\* hub.all("*"): res.sendStatus(404)
unknownHandler(req) == Receive(req, <<Response(404, "")>>, <<>>)

\* createHubServer: the routes in the order they are registered
HubBackground == \E req \in Requests :
    MatchesBackground(req) /\ backgroundHandler(req)
HubMulticast == \E req \in Requests :
    ~MatchesBackground(req) /\ MatchesMulticast(req) /\ multicastHandler(req)
HubHttps == \E req \in Requests :
    /\ ~MatchesBackground(req) /\ ~MatchesMulticast(req)
    /\ MatchesHttps(req) /\ httpsHandler(req)
HubUnknown == \E req \in Requests :
    /\ ~MatchesBackground(req) /\ ~MatchesMulticast(req) /\ ~MatchesHttps(req)
    /\ unknownHandler(req)

-----------------------------------------------------------------------------
(* Work: what a task does once the queue starts it *)

\* The prefixes of the strings the model uses as database instances.
StringPrefixes(str) ==
    CASE str = "ns1" -> {"", "n", "ns", "ns1"}
      [] OTHER -> {"", str}

\* resource.startsWith(`projects/_/instances/${projectId}`)
ResourceStartsWith(resource, projectId) ==
    /\ Len(resource) >= 4
    /\ SubSeq(resource, 1, 3) = <<"projects", "_", "instances">>
    /\ projectId \in StringPrefixes(resource[4])

\* What a task rejects with: code is <<status>>, or <<>> when the error has
\* no code property (a FirebaseError, a TypeError).
ErrorBundle(code, body) == [code |-> code, body |-> body]

\* handleBackgroundTrigger up to its first suspension: the lookup, the
\* runtime start and the project check.  outcome is "threw" (the lookup threw,
\* before any runtime was started), "rejected" or "pending".
handleBackgroundTrigger(pool, trigs, generation, projectId, triggerId) ==
    LET found == getTriggerDefinitionByName(trigs, triggerId)
        trigger == found.def
        started == startFunctionRuntime(pool, generation, triggerId)
    IN  IF found.threw \/ trigger = Undefined
        THEN [outcome |-> "threw", error |-> ErrorBundle(<<>>, ""),
              workers |-> pool, worker |-> 0]
        ELSE IF /\ projectId # ProjectId
                /\ \/ trigger.service # SERVICE_REALTIME_DATABASE
                   \/ ~ResourceStartsWith(trigger.resource, projectId)
        THEN [outcome |-> "rejected", error |-> ErrorBundle(<<404>>, ""),
              workers |-> started.workers, worker |-> started.worker]
        ELSE [outcome |-> "pending", error |-> ErrorBundle(<<>>, ""),
              workers |-> started.workers, worker |-> started.worker]

\* backgroundHandler's catch: status and body, or the bare status; a status
\* that is no number (the error carries no code) makes the response throw and
\* nothing is written.
CatchResponse(errorBundle) ==
    IF errorBundle.code = <<>> THEN <<>>
    ELSE <<Response(errorBundle.code[1], errorBundle.body)>>

Settled(t, outcome) == [t EXCEPT !.state = "settled", !.phase = outcome]

RunningOn(w) ==
    {id \in 1..Len(tasks) : tasks[id].worker = w /\ tasks[id].state = "running"}

\* A background or multicast task starts.
StartBackground(id) ==
    LET t == tasks[id]
        h == handleBackgroundTrigger(workers, triggers, triggerGeneration,
                                     t.projectId, t.triggerId)
    IN  /\ h.outcome # "threw" => CanInvoke(workers, t.triggerId)
        /\ workers' = h.workers
        /\ IF h.outcome = "pending"
           THEN /\ tasks' = [tasks EXCEPT ![id].state = "running",
                                          ![id].phase = "invoked",
                                          ![id].worker = h.worker]
                /\ res' = res
           ELSE /\ tasks' = [tasks EXCEPT
                    ![id] = [Settled(t, IF t.route = "background" /\ h.outcome = "rejected"
                                        THEN "resolved" ELSE "rejected")
                             EXCEPT !.worker = h.worker]]
                /\ res' = IF t.route = "background"
                          THEN [res EXCEPT ![t.req] = @ \o CatchResponse(h.error)]
                          ELSE res

\* handleHttpsTrigger writing the request without waiting for the socket
StartHttps_noWait(id) ==
    LET t == tasks[id]
        found == getTriggerDefinitionByName(triggers, t.triggerId)
        started == startFunctionRuntime(workers, triggerGeneration, t.triggerId)
    IN  IF found.threw \/ found.def = Undefined
        THEN /\ tasks' = [tasks EXCEPT ![id] = Settled(t, "rejected")]
             /\ UNCHANGED <<workers, res>>
        ELSE /\ CanInvoke(workers, t.triggerId)
             /\ workers' = started.workers
             /\ tasks' = [tasks EXCEPT ![id].state = "running",
                                       ![id].phase = "proxying",
                                       ![id].worker = started.worker]
             /\ res' = res

\* handleHttpsTrigger up to waitForSocketReady
StartHttps(id) ==
    LET t == tasks[id]
        found == getTriggerDefinitionByName(triggers, t.triggerId)
        started == startFunctionRuntime(workers, triggerGeneration, t.triggerId)
    IN  IF found.threw \/ found.def = Undefined
        THEN /\ tasks' = [tasks EXCEPT ![id] = Settled(t, "rejected")]
             /\ UNCHANGED <<workers, res>>
        ELSE /\ CanInvoke(workers, t.triggerId)
             /\ workers' = started.workers
             /\ tasks' = [tasks EXCEPT ![id].state = "running",
                                       ![id].phase = "awaiting-socket",
                                       ![id].worker = started.worker]
             /\ res' = res

NoneRunning == \A id \in 1..Len(tasks) : tasks[id].state # "running"

\* WorkQueue: the next pending task starts; in SEQUENTIAL mode only once the
\* one before it has settled.
RunNext ==
    /\ ~stopped
    /\ queue # <<>>
    /\ ExecutionMode(debugPort) = "SEQUENTIAL" => NoneRunning
    /\ queue' = Tail(queue)
    /\ IF tasks[Head(queue)].route = "https"
       THEN StartHttps(Head(queue))
       ELSE StartBackground(Head(queue))
    /\ UNCHANGED <<debugPort, triggers, multicastTriggers, triggerGeneration,
                   reqs, stopped, otherVars>>

\* The worker signals that its runtime opened the listener socket:
\* waitForSocketReady resolves and the request is written to the socket.
RuntimeSocketReady(w) ==
    /\ workers[w].state \in {"BUSY", "FINISHING"}
    /\ \E id \in RunningOn(w) :
        /\ tasks[id].phase = "awaiting-socket"
        /\ tasks' = [tasks EXCEPT ![id].phase = "proxying"]
    /\ workers' = [workers EXCEPT ![w].socketReady = TRUE]
    /\ UNCHANGED <<debugPort, triggers, multicastTriggers, triggerGeneration,
                   reqs, res, queue, stopped, otherVars>>

\* What was done to one caller's response while proxying: how often the
\* worker's headers were applied to it, how often they were set after the
\* head had been sent, and how many and which events of the runtime's
\* response were handled.
NoWire == [applied |-> 0, late |-> 0, events |-> 0, seen |-> {}]

\* forwardStatusAndHeaders: the status is always assigned; the headers are set
\* only if the head of the caller's response has not been sent.
forwardStatusAndHeaders_unguarded(headersSent, w) ==
    IF headersSent THEN [w EXCEPT !.late = @ + 1]
    ELSE [w EXCEPT !.applied = @ + 1]

forwardStatusAndHeaders(headersSent, w) ==
    IF ~headersSent THEN [w EXCEPT !.applied = @ + 1] ELSE w

\* The events of the runtime's response: data forwards and writes the chunk,
\* close and end forward and end the response.  The first write or end sends
\* the head with the forwarded status.
ProxyEvents == {"data", "close", "end"}

RuntimeResponse(w, ev) ==
    /\ workers[w].state \in {"BUSY", "FINISHING"}
    /\ \E id \in RunningOn(w) :
        LET r == tasks[id].req
        IN  /\ tasks[id].route = "https" /\ tasks[id].phase = "proxying"
            /\ wire[r].events < MaxEvents
            /\ wire' = [wire EXCEPT
                    ![r] = [forwardStatusAndHeaders(res[r] # <<>>, wire[r])
                                EXCEPT !.events = @ + 1,
                                       !.seen = @ \cup {ev}]]
            /\ res' = [res EXCEPT
                    ![r] = IF @ = <<>> THEN <<Response(200, "proxied")>> ELSE @]
    /\ UNCHANGED <<debugPort, triggers, multicastTriggers, triggerGeneration,
                   reqs, tasks, queue, stopped, workers, lookupVars, logVars,
                   discoveryVars, stopVars, pipeVars>>

\* What the tasks waiting on worker w do when its invocation is done; a task
\* still waiting for the socket waits on.
DoneTasks(w) ==
    [id \in 1..Len(tasks) |->
        IF id \in RunningOn(w) /\ tasks[id].phase # "awaiting-socket"
        THEN Settled(tasks[id], "resolved") ELSE tasks[id]]
DoneResponses_settledToo(w) ==
    [r \in 1..Len(res) |->
        IF \E id \in 1..Len(tasks) :
            /\ tasks[id].worker = w /\ tasks[id].state \in {"running", "settled"}
            /\ tasks[id].req = r /\ tasks[id].route = "background"
        THEN Append(res[r], Response(200, "acknowledged"))
        ELSE res[r]]

DoneResponses(w) ==
    [r \in 1..Len(res) |->
        IF \E id \in RunningOn(w) :
            tasks[id].req = r /\ tasks[id].route = "background"
        THEN Append(res[r], Response(200, "acknowledged"))
        ELSE res[r]]

\* The runtime reports its invocation finished: the worker is idle again, or,
\* when a refresh found it busy, is shut down.
RuntimeIdle(w) ==
    /\ workers[w].state \in {"BUSY", "FINISHING"} /\ ~workers[w].killed
    /\ \A id \in RunningOn(w) : tasks[id].phase # "awaiting-socket"
    /\ workers' = [workers EXCEPT
            ![w].state = IF @ = "BUSY" THEN "IDLE" ELSE "FINISHED"]
    /\ tasks' = DoneTasks(w)
    /\ res' = DoneResponses(w)
    /\ UNCHANGED <<debugPort, triggers, multicastTriggers, triggerGeneration,
                   reqs, queue, stopped, otherVars>>

\* The runtime logs a FATAL record: onData kills the process; a background
\* task rejects; an HTTPS task answers res.status(500).send(text), which sends
\* only if the head of the response has not been sent.
RuntimeFatal(w) ==
    /\ workers[w].state \in {"BUSY", "FINISHING"}
    /\ workers[w].fatals < MaxFatals
    /\ workers' = [workers EXCEPT ![w].killed = TRUE, ![w].fatals = @ + 1]
    /\ tasks' = [id \in 1..Len(tasks) |->
                    IF id \notin RunningOn(w) THEN tasks[id]
                    ELSE IF tasks[id].route = "https"
                    THEN [tasks[id] EXCEPT !.fatal = TRUE]
                    ELSE Settled([tasks[id] EXCEPT !.fatal = TRUE],
                                 IF tasks[id].route = "background"
                                 THEN "resolved" ELSE "rejected")]
    /\ res' = [r \in 1..Len(res) |->
                    IF \/ \E id \in RunningOn(w) :
                            tasks[id].req = r /\ tasks[id].route = "background"
                       \/ \E id \in RunningOn(w) :
                            /\ tasks[id].req = r /\ tasks[id].route = "https"
                            /\ res[r] = <<>>
                    THEN Append(res[r], Response(500, "fatal"))
                    ELSE res[r]]
    /\ UNCHANGED <<debugPort, triggers, multicastTriggers, triggerGeneration,
                   reqs, queue, stopped, otherVars>>

\* The killed process exits.
RuntimeExit(w) ==
    /\ workers[w].state \in {"BUSY", "FINISHING"} /\ workers[w].killed
    /\ workers' = [workers EXCEPT ![w].state = "FINISHED"]
    /\ tasks' = DoneTasks(w)
    /\ res' = DoneResponses(w)
    /\ UNCHANGED <<debugPort, triggers, multicastTriggers, triggerGeneration,
                   reqs, queue, stopped, otherVars>>

-----------------------------------------------------------------------------
(* The runtime's output streams and onData *)

Streams == {"stdout", "stderr"}

\* The bytes a stream carries: line feed, the ASCII letters a and F, and the
\* two bytes of one UTF-8 encoded character (U+00E9).
ByteLF == "0A"
ByteLead == "C3"
ByteCont == "A9"
Bytes == {ByteLF, "61", "46", ByteLead, ByteCont}

\* The characters bytes decode to; CharReplacement is U+FFFD.
CharLF == "LF"
CharReplacement == "U+FFFD"
AsciiChar(byte) == CASE byte = ByteLF -> CharLF
                     [] byte = "61" -> "a"
                     [] byte = "46" -> "F"

\* buf.toString(): the chunk's bytes decoded as UTF-8 on their own; a byte
\* sequence cut short by the chunk's end, or a continuation byte without its
\* lead byte, decodes to U+FFFD.
RECURSIVE toString(_)
toString(buf) ==
    IF buf = <<>> THEN <<>>
    ELSE IF Head(buf) = ByteLead
    THEN IF Len(buf) >= 2 /\ buf[2] = ByteCont
         THEN <<"U+00E9">> \o toString(SubSeq(buf, 3, Len(buf)))
         ELSE <<CharReplacement>> \o toString(Tail(buf))
    ELSE IF Head(buf) = ByteCont
    THEN <<CharReplacement>> \o toString(Tail(buf))
    ELSE <<AsciiChar(Head(buf))>> \o toString(Tail(buf))

\* value.split("\n")
RECURSIVE Split(_)
Split(value) ==
    IF \A i \in 1..Len(value) : value[i] # CharLF THEN <<value>>
    ELSE LET i == CHOOSE j \in 1..Len(value) :
                      value[j] = CharLF /\ \A k \in 1..(j - 1) : value[k] # CharLF
         IN  <<SubSeq(value, 1, i - 1)>> \o Split(SubSeq(value, i + 1, Len(value)))

\* EmulatorLog.fromJSON: one line parsed as one record; a line starting with
\* F stands for a record of level FATAL.
fromJSON(line) ==
    [level |-> IF line # <<>> /\ line[1] = "F" THEN "FATAL" ELSE "USER",
     type |-> "function-log", text |-> line]

KilledLog == [level |-> "SYSTEM", type |-> "runtime-status", text |-> <<"killed">>]

\* The events the forEach over the completed lines emits, in order.
RECURSIVE LineEvents(_)
LineEvents(lines) ==
    IF lines = <<>> THEN <<>>
    ELSE LET log == fromJSON(Head(lines))
         IN  (IF log.level = "FATAL" THEN <<log, KilledLog>> ELSE <<log>>)
             \o LineEvents(Tail(lines))

FatalCount(events) ==
    Cardinality({i \in 1..Len(events) : events[i].level = "FATAL"})

\* onData on a buffer holding `value`, for chunk `buf`: the events emitted,
\* the runtime.kill() calls made and the buffer's new value.
onData(value, buf) ==
    LET lines == Split(value \o toString(buf))
        complete == SubSeq(lines, 1, Len(lines) - 1)
    IN  [events |-> LineEvents(complete),
         kills |-> FatalCount(LineEvents(complete)),
         value |-> lines[Len(lines)]]

ChunksUpTo(n) == UNION {[1..k -> Bytes] : k \in 1..n}

BytesRead == Len(delivered["stdout"]) + Len(delivered["stderr"])

\* A chunk arrives on stream s ("data"); each event is kept with its stream.
Data(s, buf) ==
    /\ BytesRead + Len(buf) <= MaxBytes
    /\ LET r == onData(buffers[s], buf)
       IN  /\ emitted' = emitted \o [i \in 1..Len(r.events) |->
                                        [stream |-> s, log |-> r.events[i]]]
           /\ kills' = kills + r.kills
           /\ buffers' = [buffers EXCEPT ![s] = r.value]
    /\ delivered' = [delivered EXCEPT ![s] = @ \o buf]
    /\ UNCHANGED <<hubVars, lookupVars, discoveryVars, stopVars, httpsVars, pipeVars>>

\* Two runtime processes, each with the pipes invokeRuntime listens to.
Processes == {"p1", "p2"}
Pipes == {"stdout", "stderr", "ipc"}
StreamIds == Processes \X Pipes

\* The buffer object invokeRuntime hands to onData for a pipe of a process:
\* buffers.stdout, buffers.stderr or ipcBuffer, each allocated in the call
\* that spawned the process.
BufferOf_perProcess(process, pipe) == <<process, "stdout">>

BufferOf(process, pipe) == <<process, pipe>>

\* The chunks the pipes carry: a piece of a line, a line's end, a whole
\* FATAL line, and a line's end followed by the start of the next line.
PipeChunks == {<<"61">>, <<ByteLF>>, <<"46", ByteLF>>, <<ByteLF, "61">>}

\* Nothing read yet: every buffer's value is "", and per pipe no chunk has
\* arrived and no record was emitted; `read` counts the chunks.
NoData ==
    [value |-> [b \in StreamIds |-> <<>>],
     chunks |-> [id \in StreamIds |-> <<>>],
     events |-> [id \in StreamIds |-> <<>>],
     read |-> 0]

\* A chunk arrives on a pipe of a process: the listener invokeRuntime set up
\* calls onData with that pipe's buffer.
PipeData(process, pipe, buf) ==
    /\ io.read < MaxChunks
    /\ LET b == BufferOf(process, pipe)
           r == onData(io.value[b], buf)
       IN  io' = [value |-> [io.value EXCEPT ![b] = r.value],
                  chunks |-> [io.chunks EXCEPT ![<<process, pipe>>] = Append(@, buf)],
                  events |-> [io.events EXCEPT ![<<process, pipe>>] = @ \o r.events],
                  read |-> io.read + 1]
    /\ UNCHANGED <<hubVars, lookupVars, logVars, discoveryVars, stopVars, httpsVars>>

-----------------------------------------------------------------------------
(* The registry's public operations *)

HubDefs == {DefHttps, DefAuth}
DefLists == {<<d>> : d \in HubDefs}

SetTriggersForTesting(defs) ==
    /\ triggers' = setTriggersForTesting(triggers, defs)
    /\ UNCHANGED <<debugPort, multicastTriggers, triggerGeneration, reqs, res,
                   tasks, queue, stopped, workers, otherVars>>

AddAuthTrigger(definition) ==
    /\ definition.service = SERVICE_AUTH
    /\ Len(Subscribers(multicastTriggers, <<ProjectId, definition.eventType>>))
          < MaxSubscribers
    /\ multicastTriggers' = addAuthTrigger(multicastTriggers, ProjectId, definition)
    /\ UNCHANGED <<debugPort, triggers, triggerGeneration, reqs, res, tasks,
                   queue, stopped, workers, otherVars>>

DisableBackgroundTriggers ==
    /\ triggers' = disableBackgroundTriggers(triggers)
    /\ UNCHANGED <<debugPort, multicastTriggers, triggerGeneration, reqs, res,
                   tasks, queue, stopped, workers, otherVars>>

\* A caller looks a name up; lastLookup keeps the name and what came back.
GetTriggerDefinitionByName(triggerName) ==
    /\ lastLookup' = [name |-> triggerName,
                      result |-> getTriggerDefinitionByName(triggers, triggerName)]
    /\ UNCHANGED <<hubVars, logVars, discoveryVars, stopVars, httpsVars, pipeVars>>

-----------------------------------------------------------------------------
(* Discovery: loadTriggers *)

refresh_keepIdle(pool) ==
    [w \in 1..Len(pool) |->
        IF pool[w].state = "BUSY" THEN [pool[w] EXCEPT !.state = "FINISHING"]
        ELSE pool[w]]

\* RuntimeWorkerPool.refresh: every worker is stale from now on; an idle one
\* is terminated, a busy one finishes its invocation first.
refresh(pool) ==
    [w \in 1..Len(pool) |->
        IF pool[w].state = "IDLE" THEN [pool[w] EXCEPT !.state = "FINISHED"]
        ELSE IF pool[w].state = "BUSY" THEN [pool[w] EXCEPT !.state = "FINISHING"]
        ELSE pool[w]]

\* DATABASE_PATH_PATTERN.exec(resource) finds a match:
\* ^projects/[^/]+/instances/([^/]+)/refs(/.*)$
DatabasePathMatches(resource) ==
    /\ Len(resource) >= 6
    /\ resource[1] = "projects" /\ resource[2] # ""
    /\ resource[3] = "instances" /\ resource[4] # ""
    /\ resource[5] = "refs"

Call(service, definition) == [service |-> service, name |-> definition.name]

\* DATABASE_PATH_PATTERN.exec(resource): <<instance, path>>, the two capture
\* groups (path as the segments after "refs"), or <<>> for null.
DatabasePathExec(resource) ==
    IF DatabasePathMatches(resource)
    THEN <<resource[4], SubSeq(resource, 6, Len(resource))>>
    ELSE <<>>

NotRequested(outcome) ==
    [outcome |-> outcome, ns |-> "", path |-> <<>>, query |-> <<>>, warned |-> FALSE]

\* addRealtimeDatabaseTrigger up to the promise it returns: outcome "false"
\* (no database emulator), "rejected", or "request" with the namespace and
\* path extracted, the query of the settings path and whether the
\* sentinel-namespace warning was logged.
addRealtimeDatabaseTrigger(definition, running) ==
    IF "database" \notin running THEN NotRequested("false")
    ELSE IF ~definition.eventTrigger THEN NotRequested("rejected")
    ELSE LET result == DatabasePathExec(definition.resource)
         IN  IF result = <<>> THEN NotRequested("rejected")
             ELSE [outcome |-> "request", ns |-> result[1], path |-> result[2],
                   query |-> IF result[1] # "" THEN <<"ns", result[1]>> ELSE <<>>,
                   warned |-> result[1] = ""]

\* How the switch over the definition's service goes, up to its await:
\* "added" or "ignored" at once, "throws" (a rejected promise), or "request"
\* (a call to the collaborator is in flight).
Registration(definition, running) ==
    CASE definition.service = SERVICE_FIRESTORE ->
            IF "firestore" \notin running THEN "ignored" ELSE "request"
      [] definition.service = SERVICE_REALTIME_DATABASE ->
            LET added == addRealtimeDatabaseTrigger(definition, running)
            IN  CASE added.outcome = "false" -> "ignored"
                  [] added.outcome = "rejected" -> "throws"
                  [] OTHER -> "request"
      [] definition.service = SERVICE_PUBSUB ->
            IF "pubsub" \notin running \/ ~definition.eventTrigger
            THEN "ignored" ELSE "request"
      [] definition.service = SERVICE_AUTH -> "added"
      [] OTHER -> "ignored"

toSetup_all(trigs, triggerDefinitions) == triggerDefinitions

\* triggerDefinitions.filter((definition) => !this.triggers[definition.name])
toSetup(trigs, triggerDefinitions) ==
    SelectSeq(triggerDefinitions, LAMBDA d : TriggersGet(trigs, d.name) = Undefined)

\* The for loop over the definitions left, run until it suspends on a
\* collaborator call, throws, or ends.
RECURSIVE SetupLoop(_, _, _, _, _)
SetupLoop(trigs, mt, sent, left, running) ==
    IF left = <<>>
    THEN [triggers |-> trigs, multicastTriggers |-> mt, calls |-> sent,
          left |-> left, pc |-> "done"]
    ELSE LET definition == Head(left)
             how == IF definition.httpsTrigger THEN "added"
                    ELSE Registration(definition, running)
         IN  IF how = "request"
             THEN [triggers |-> trigs, multicastTriggers |-> mt,
                   calls |-> Append(sent, Call(definition.service, definition)),
                   left |-> left, pc |-> "awaitCollab"]
             ELSE IF how = "throws"
             THEN [triggers |-> trigs, multicastTriggers |-> mt, calls |-> sent,
                   left |-> left, pc |-> "failed"]
             ELSE SetupLoop(addTriggerRecord(trigs, definition),
                            IF ~definition.httpsTrigger /\ definition.service = SERVICE_AUTH
                            THEN addAuthTrigger(mt, ProjectId, definition) ELSE mt,
                            sent, Tail(left), running)

DefinitionLists ==
    {<<DefHttps>>, <<DefAuth>>, <<DefDatabase, DefAuth>>, <<DefFirestore, DefHttps>>,
     <<DefAuth, DefDatabase, DefHttps>>, <<DefDatabaseNoNamespace, DefHttps>>}

Load(pc, worker, given, left, known) ==
    [pc |-> pc, worker |-> worker, given |-> given, left |-> left, known |-> known,
     before |-> Len(workers)]

\* loadTriggers up to its wait for the triggers-parsed log.  `known` keeps
\* the names registered when the run started, `given` the definitions the
\* diagnostic runtime reported, `left` those of toSetup not yet set up,
\* `before` how many workers the pool held when the run refreshed it.
loadTriggers(generation) ==
    LET diagnostic == invokeRuntime(refresh(workers), getBaseBundle(generation))
    IN  /\ Len(loads) < MaxLoads
        /\ Len(workers) < MaxWorkers
        /\ triggerGeneration' = generation
        /\ workers' = diagnostic.workers
        /\ loads' = Append(loads, Load("awaitParsed", diagnostic.worker, <<>>, <<>>,
                                       DOMAIN triggers))
        /\ UNCHANGED <<debugPort, triggers, multicastTriggers, reqs, res, tasks,
                       queue, stopped, calls, emulators, lastAdded, lookupVars, logVars, stopVars, httpsVars, pipeVars>>

LoadTriggers == loadTriggers(triggerGeneration)

ReloadTriggers == loadTriggers(triggerGeneration + 1)

\* Run k goes on from the state `after` the loop reached.
Resume(k, after) ==
    /\ triggers' = after.triggers
    /\ multicastTriggers' = after.multicastTriggers
    /\ calls' = after.calls
    /\ loads' = [loads EXCEPT ![k].pc = after.pc, ![k].left = after.left]
    /\ UNCHANGED <<debugPort, triggerGeneration, reqs, res, tasks, queue,
                   stopped, workers, emulators, lastAdded, lookupVars, logVars, stopVars, httpsVars, pipeVars>>

\* The diagnostic runtime logs triggers-parsed with its definitions.
TriggersParsed(k, triggerDefinitions) ==
    /\ loads[k].pc = "awaitParsed"
    /\ workers[loads[k].worker].state \in {"BUSY", "FINISHING"}
    /\ LET after == SetupLoop(triggers, multicastTriggers, calls,
                              toSetup(triggers, triggerDefinitions), emulators)
       IN  /\ triggers' = after.triggers
           /\ multicastTriggers' = after.multicastTriggers
           /\ calls' = after.calls
           /\ loads' = [loads EXCEPT ![k].pc = after.pc, ![k].left = after.left,
                                     ![k].given = triggerDefinitions]
    /\ UNCHANGED <<debugPort, triggerGeneration, reqs, res, tasks, queue,
                   stopped, workers, emulators, lastAdded, lookupVars, logVars, stopVars, httpsVars, pipeVars>>

\* A wait for the triggers-parsed log that has no bound.
DiscoveryTimeout_never(k) ==
    /\ FALSE
    /\ UNCHANGED vars

\* EmulatorLog.waitForLog gave up waiting for triggers-parsed: it rejects,
\* loadTriggers has no handler for it and rejects to its caller.
DiscoveryTimeout(k) ==
    /\ loads[k].pc = "awaitParsed"
    /\ loads' = [loads EXCEPT ![k].pc = "failed"]
    /\ UNCHANGED <<hubVars, calls, emulators, lastAdded, lookupVars, logVars,
                   stopVars, httpsVars, pipeVars>>

\* The collaborator accepted the registration: added is true.
CollaboratorAccepts(k) ==
    /\ loads[k].pc = "awaitCollab"
    /\ Resume(k, SetupLoop(addTriggerRecord(triggers, Head(loads[k].left)),
                           multicastTriggers, calls, Tail(loads[k].left), emulators))

\* The collaborator's call failed: the pubsub branch catches it (added is
\* false); the firestore and database branches rethrow, which ends the run.
CollaboratorRejects(k) ==
    /\ loads[k].pc = "awaitCollab"
    /\ IF Head(loads[k].left).service = SERVICE_PUBSUB
       THEN Resume(k, SetupLoop(addTriggerRecord(triggers, Head(loads[k].left)),
                                multicastTriggers, calls, Tail(loads[k].left),
                                emulators))
       ELSE Resume(k, [triggers |-> triggers, multicastTriggers |-> multicastTriggers,
                       calls |-> calls, left |-> loads[k].left, pc |-> "failed"])

\* resource projects/_/instances/myns/refs/foo/bar
DefDatabaseMyns ==
    Definition("myns", "myns", SERVICE_REALTIME_DATABASE, "ref.write",
               <<"projects", "_", "instances", "myns", "refs", "foo", "bar">>)
\* resource projects/_/instances/myns/refs: nothing after refs
DefDatabaseNoPath ==
    Definition("nopath", "nopath", SERVICE_REALTIME_DATABASE, "ref.write",
               <<"projects", "_", "instances", "myns", "refs">>)
DatabaseDefs ==
    {DefDatabase, DefDatabaseMyns, DefDatabaseNoNamespace, DefDatabaseNoPath, DefHttps}

\* addRealtimeDatabaseTrigger is called with a definition; a request that is
\* issued goes to the database emulator.
AddRealtimeDatabaseTrigger(definition) ==
    LET added == addRealtimeDatabaseTrigger(definition, emulators)
    IN  /\ added.outcome = "request" => Len(calls) < MaxCalls
        /\ lastAdded' = [name |-> definition.name, result |-> added]
        /\ calls' = IF added.outcome = "request"
                    THEN Append(calls, Call(SERVICE_REALTIME_DATABASE, definition))
                    ELSE calls
        /\ UNCHANGED <<hubVars, lookupVars, logVars, loads, emulators, stopVars, httpsVars, pipeVars>>

\* A collaborator emulator comes up.
StartEmulator(e) ==
    /\ e \notin emulators
    /\ emulators' = emulators \cup {e}
    /\ UNCHANGED <<hubVars, lookupVars, logVars, loads, calls, lastAdded, stopVars, httpsVars, pipeVars>>

-----------------------------------------------------------------------------
(* Shutdown: stop() *)

\* WorkQueue.flush has nothing left to wait for: no task pending, none running.
Flushed == queue = <<>> /\ NoneRunning

\* RuntimeWorkerPool.exit: every worker is terminated now; an idle one is gone
\* at once, a busy one's process is killed and exits.
exit(pool) ==
    [w \in 1..Len(pool) |->
        IF pool[w].state = "IDLE" THEN [pool[w] EXCEPT !.state = "FINISHED"]
        ELSE IF pool[w].state \in {"BUSY", "FINISHING"}
        THEN [pool[w] EXCEPT !.killed = TRUE]
        ELSE pool[w]]

\* stop() past its await of flush: workQueue.stop(), workerPool.exit(), then
\* the await of destroyServer().
StopQueueAndWorkers(admitted, warned) ==
    /\ stopped' = TRUE
    /\ workers' = exit(workers)
    /\ stopRun' = [pc |-> "closing", admitted |-> admitted, warned |-> warned]
    /\ UNCHANGED <<debugPort, triggers, multicastTriggers, triggerGeneration,
                   reqs, res, tasks, queue, lookupVars, logVars, discoveryVars,
                   listening, httpsVars, pipeVars>>

\* stop() is called: it awaits workQueue.flush(), which resolves at once when
\* the queue has no work.  `admitted` keeps how many tasks had been submitted
\* by then.
StopBegin ==
    /\ stopRun.pc = "idle"
    /\ IF Flushed
       THEN StopQueueAndWorkers(Len(tasks), FALSE)
       ELSE /\ stopRun' = [pc |-> "flushing", admitted |-> Len(tasks),
                            warned |-> FALSE]
            /\ UNCHANGED <<hubVars, lookupVars, logVars, discoveryVars, listening, httpsVars, pipeVars>>

\* stop() without the try/catch around the await of flush: a rejection ends
\* the call.
StopAfterFlush_uncaught(resolved) ==
    /\ stopRun.pc = "flushing"
    /\ resolved => Flushed
    /\ IF resolved
       THEN StopQueueAndWorkers(stopRun.admitted, FALSE)
       ELSE /\ stopRun' = [stopRun EXCEPT !.pc = "rejected"]
            /\ UNCHANGED <<hubVars, lookupVars, logVars, discoveryVars, listening, httpsVars, pipeVars>>

\* flush resolved, or gave up and rejected (caught, a warning is logged).
StopAfterFlush(resolved) ==
    /\ stopRun.pc = "flushing"
    /\ resolved => Flushed
    /\ StopQueueAndWorkers(stopRun.admitted, ~resolved)

\* destroyServer() closed the listener; stop() returns.
StopClosed ==
    /\ stopRun.pc = "closing"
    /\ listening' = FALSE
    /\ stopRun' = [stopRun EXCEPT !.pc = "done"]
    /\ UNCHANGED <<hubVars, lookupVars, logVars, discoveryVars, httpsVars, pipeVars>>

-----------------------------------------------------------------------------
(* Specification: the hub, the registry, the queue and the pool *)

NothingAdded == [name |-> "", result |-> NotRequested("none")]

NotStopping == [pc |-> "idle", admitted |-> 0, warned |-> FALSE]

NoLookup == [name |-> "", result |-> [threw |-> FALSE, def |-> Undefined]]

\* The emulator after construction and createHubServer: nothing registered,
\* the queue started.
Init ==
    /\ debugPort \in DebugPorts
    /\ triggers = <<>>
    /\ multicastTriggers = <<>>
    /\ triggerGeneration = 1
    /\ reqs = <<>>
    /\ res = <<>>
    /\ tasks = <<>>
    /\ queue = <<>>
    /\ stopped = FALSE
    /\ workers = <<>>
    /\ lastLookup = NoLookup
    /\ delivered = [s \in Streams |-> <<>>]
    /\ buffers = [s \in Streams |-> <<>>]
    /\ emitted = <<>>
    /\ kills = 0
    /\ loads = <<>>
    /\ calls = <<>>
    /\ emulators = {}
    /\ lastAdded = NothingAdded
    /\ stopRun = NotStopping
    /\ listening = TRUE
    /\ wire = [r \in 1..MaxReqs |-> NoWire]
    /\ io = NoData

Next ==
    \/ HubBackground
    \/ HubMulticast
    \/ HubHttps
    \/ HubUnknown
    \/ RunNext
    \/ \E w \in 1..Len(workers) : RuntimeSocketReady(w)
    \/ \E w \in 1..Len(workers) : RuntimeIdle(w)
    \/ \E w \in 1..Len(workers) : RuntimeFatal(w)
    \/ \E w \in 1..Len(workers) : RuntimeExit(w)
    \/ \E defs \in DefLists : SetTriggersForTesting(defs)
    \/ \E d \in HubDefs : AddAuthTrigger(d)
    \/ DisableBackgroundTriggers

Spec == Init /\ [][Next]_vars

-----------------------------------------------------------------------------
(* Claims checked under Spec *)

\* The step receives a request; it is the last of reqs'.
Arrives == Len(reqs') = Len(reqs) + 1
Arrived == reqs'[Len(reqs')]
TasksOf(r) == {id \in 1..Len(tasks) : tasks[id].req = r}
Running == {id \in 1..Len(tasks) : tasks[id].state = "running"}

IsBackgroundPath(path) ==
    Len(path) = 5 /\ SubSeq(path, 1, 2) = <<"functions", "projects">> /\ path[4] = "triggers"
IsMulticastPath(path) ==
    Len(path) = 4 /\ SubSeq(path, 1, 2) = <<"functions", "projects">>
                  /\ path[4] = "trigger_multicast"
IsHttpsPath(path) == Len(path) >= 3 /\ path[1] = ProjectId

C2_SequentialNoOverlap ==
    debugPort # 0 => Cardinality(Running) <= 1

\* SEQUENTIAL mode, a task running and another one waiting behind it.
C2_Witness ==
    /\ debugPort # 0
    /\ Cardinality(Running) = 1
    /\ queue # <<>>
    /\ \E id \in 1..Len(tasks) : tasks[id].state = "settled"

C7_UnknownTriggerIs404 ==
    [][ /\ \A id \in 1..Len(tasks) :
             ( /\ tasks[id].state = "pending" /\ tasks'[id].state # "pending"
               /\ tasks[id].route \in {"https", "background"}
               /\ tasks[id].triggerId \notin DOMAIN triggers )
             => /\ workers' = workers
                /\ res'[tasks[id].req] = <<Response(404, "")>>
        /\ ( /\ Arrives
             /\ \/ Arrived.method = "POST" /\ IsBackgroundPath(Arrived.path)
                   /\ Arrived.path[5] \notin DOMAIN triggers
                \/ ~(Arrived.method = "POST" /\ IsBackgroundPath(Arrived.path))
                   /\ ~(Arrived.method = "POST" /\ IsMulticastPath(Arrived.path))
                   /\ IsHttpsPath(Arrived.path)
                   /\ Arrived.path[3] \notin DOMAIN triggers )
           => res'[Len(reqs')] \in {<<>>, <<Response(404, "")>>}
      ]_vars

\* C8: a request matching none of the background, multicast and HTTPS routes
\* is answered 404 and no task is submitted to the work queue.
C8_UnmatchedIs404 ==
    [][ ( /\ Arrives
          /\ ~(Arrived.method = "POST" /\ IsBackgroundPath(Arrived.path))
          /\ ~(Arrived.method = "POST" /\ IsMulticastPath(Arrived.path))
          /\ ~IsHttpsPath(Arrived.path) )
        => /\ res'[Len(reqs')] = <<Response(404, "")>>
           /\ tasks' = tasks /\ queue' = queue /\ workers' = workers
      ]_vars

\* An unmatched request (a GET of the background path) answered 404 while
\* tasks of other requests are in the queue.
C8_Witness ==
    \E r \in 1..Len(reqs) :
        /\ reqs[r].method = "GET" /\ IsBackgroundPath(reqs[r].path)
        /\ res[r] = <<Response(404, "")>>
        /\ TasksOf(r) = {}
        /\ tasks # <<>>

C16_OneInvocationPerWorker ==
    \A w \in 1..Len(workers) :
        /\ Cardinality(RunningOn(w)) <= 1
        /\ RunningOn(w) # {} => workers[w].state # "IDLE"

\* Two invocations of the same trigger id are in flight at once, each on a
\* worker of its own.
C16_Witness ==
    \E a, b \in Running :
        /\ a # b
        /\ tasks[a].triggerId = tasks[b].triggerId
        /\ tasks[a].worker # tasks[b].worker
        /\ workers[tasks[a].worker].key = workers[tasks[b].worker].key

-----------------------------------------------------------------------------
(* Specification: the registry alone, and the claims checked under it *)

RegistryDefLists ==
    {<<d>> : d \in Defs} \cup {<<DefAuth, DefHttps>>, <<DefDatabase, DefDatabase>>}

NextRegistry ==
    \/ \E defs \in RegistryDefLists : SetTriggersForTesting(defs)
    \/ DisableBackgroundTriggers
    \/ \E n \in LookupNames : GetTriggerDefinitionByName(n)

SpecRegistry == Init /\ [][NextRegistry]_vars

\* C9: looking up a name that is not in the registry fails with the NotFound
\* error and leaves the registry as it was; looking up a name that is in it
\* returns that record's definition.
C9_LookupNotFound ==
    [][ lastLookup' # lastLookup
        => LET n == lastLookup'.name
               r == lastLookup'.result
           IN  /\ triggers' = triggers
               /\ n \notin DOMAIN triggers => r.threw
               /\ n \in DOMAIN triggers => ~r.threw /\ r.def = triggers[n].def
      ]_vars

\* C14: registering a definition inserts a record with enabled = true when
\* the name is unseen and is a no-op when a record of that name exists: no
\* step of the registry changes an existing record's definition or turns its
\* enabled flag back on, and no record is lost.
C14_RegisterIsIdempotent ==
    [][ /\ \A n \in DOMAIN triggers :
              /\ n \in DOMAIN triggers'
              /\ triggers'[n].def = triggers[n].def
              /\ triggers'[n].enabled => triggers[n].enabled
        /\ \A n \in DOMAIN triggers' \ DOMAIN triggers : triggers'[n].enabled
      ]_vars

-----------------------------------------------------------------------------
(* Specification: one runtime process's streams, and the claims checked   *)
(* under it                                                                 *)

NextLog == \E s \in Streams : \E buf \in ChunksUpTo(MaxBytes) : Data(s, buf)

SpecLog == Init /\ [][NextLog]_vars


StreamEvents(s) ==
    LET at == SelectSeq(emitted, LAMBDA e : e.stream = s)
    IN  [i \in 1..Len(at) |-> at[i].log]

\* C4: however a stream's bytes were cut into chunks, the records emitted for
\* it are those of the whole stream delivered as one chunk, and the buffer
\* holds the unfinished last line.
C4_ChunkIndependence ==
    \A s \in Streams :
        /\ StreamEvents(s) = onData(<<>>, delivered[s]).events
        /\ buffers[s] = onData(<<>>, delivered[s]).value

\* C5: once a FATAL record was seen the process was killed exactly once and
\* exactly one synthetic killed event was emitted, whatever else followed.
C5_KilledOnce ==
    (\E i \in 1..Len(emitted) : emitted[i].log.level = "FATAL")
    => /\ kills = 1
       /\ Cardinality({i \in 1..Len(emitted) : emitted[i].log = KilledLog}) = 1

-----------------------------------------------------------------------------
(* Specification: discovery runs, and the claims checked under it *)

NextDiscovery ==
    \/ LoadTriggers
    \/ ReloadTriggers
    \/ \E k \in 1..Len(loads) : \E defs \in DefinitionLists : TriggersParsed(k, defs)
    \/ \E k \in 1..Len(loads) : CollaboratorAccepts(k)
    \/ \E k \in 1..Len(loads) : CollaboratorRejects(k)
    \/ \E w \in 1..Len(workers) : RuntimeIdle(w)
    \/ \E e \in {"database", "firestore"} : StartEmulator(e)
    \/ DisableBackgroundTriggers

SpecDiscovery == Init /\ [][NextDiscovery]_vars

CallsFor(sent, name) == SelectSeq(sent, LAMBDA c : c.name = name)
SubscriptionsOf(mt, entryPoint) ==
    [key \in MulticastKeys |->
        Len(SelectSeq(Subscribers(mt, key), LAMBDA e : e = entryPoint))]

\* C6: a discovery run works only on definitions whose name was not in the
\* registry: no step of the run changes the definition or the enabled flag of
\* a record that existed when the run started, sends a collaborator
\* registration for it, or subscribes it to a multicast event again.
C6_DiscoveryLeavesKnownRecords ==
    [][ \A k \in 1..Len(loads) :
          loads'[k] # loads[k]
          => \A n \in loads[k].known :
                /\ n \in DOMAIN triggers' /\ triggers'[n] = triggers[n]
                /\ CallsFor(calls', n) = CallsFor(calls, n)
                /\ SubscriptionsOf(multicastTriggers', triggers[n].def.entryPoint)
                     = SubscriptionsOf(multicastTriggers, triggers[n].def.entryPoint)
      ]_vars

\* C13: when a discovery run that received its definitions has ended, every
\* definition it was given is in the registry, whether the collaborator
\* accepted the registration, was absent, or the registration failed; a
\* failure for one definition does not keep the later ones from being set up.
C13_AllDefinitionsRegistered ==
    \A k \in 1..Len(loads) :
        loads[k].pc \in {"done", "failed"}
        => \A i \in 1..Len(loads[k].given) :
              loads[k].given[i].name \in DOMAIN triggers

\* A run that started with a disabled record in the registry was handed that
\* definition again along with new ones, and has ended: the new ones are
\* registered, the old record is still disabled.
C6_Witness ==
    \E k \in 1..Len(loads) :
        /\ loads[k].pc = "done"
        /\ "au" \in loads[k].known
        /\ \E i \in 1..Len(loads[k].given) : loads[k].given[i].name = "au"
        /\ ~triggers["au"].enabled
        /\ "db" \in DOMAIN triggers /\ "db" \notin loads[k].known
        /\ triggers["db"].enabled
        /\ Len(calls) = 1

-----------------------------------------------------------------------------
(* Specification: HTTPS invocations around discovery runs' pool refresh,    *)
(* and the claims checked under it                                          *)

NextRefresh ==
    \/ \E defs \in DefLists : SetTriggersForTesting(defs)
    \/ HubHttps
    \/ RunNext
    \/ \E w \in 1..Len(workers) : RuntimeSocketReady(w)
    \/ \E w \in 1..Len(workers) : RuntimeIdle(w)
    \/ LoadTriggers

SpecRefresh == Init /\ [][NextRefresh]_vars

\* C11: once a discovery run has refreshed the pool, no worker the pool held
\* before that refresh is given a bundle or a task again; the run's own
\* diagnostic invocation is on a process spawned after the refresh; and a
\* stale worker never turns idle: it is terminated when the invocation it was
\* busy with is done.
C11_StaleWorkersNeverReused ==
    [][ /\ \A k \in 1..Len(loads') : loads'[k].worker > loads'[k].before
        /\ \A k \in 1..Len(loads) : \A w \in 1..loads[k].before :
              /\ workers'[w].lastArgs = workers[w].lastArgs
              /\ workers'[w].state \in {"FINISHING", "FINISHED"}
              /\ \A id \in 1..Len(tasks') :
                    tasks'[id].worker = w => tasks[id].worker = w
              /\ (\E id \in RunningOn(w) : tasks'[id].state = "settled")
                    => workers'[w].state = "FINISHED"
      ]_vars

\* A worker of trigger h that served an invocation before a refresh is
\* terminated, and an invocation of h admitted after the refresh runs on a
\* process spawned after it.
C11_Witness ==
    \E k \in 1..Len(loads) :
        /\ \E w \in 1..loads[k].before :
              /\ workers[w].key = "h" /\ workers[w].state = "FINISHED"
              /\ \E id \in 1..Len(tasks) :
                    tasks[id].worker = w /\ tasks[id].state = "settled"
        /\ \E v \in (loads[k].before + 1)..Len(workers) :
              workers[v].key = "h" /\ RunningOn(v) # {}

-----------------------------------------------------------------------------
(* Specification: requests and their work around a call of stop(), and the  *)
(* claims checked under it                                                  *)

NextStop ==
    \/ \E defs \in DefLists : SetTriggersForTesting(defs)
    \/ HubHttps
    \/ HubBackground
    \/ RunNext
    \/ \E w \in 1..Len(workers) : RuntimeSocketReady(w)
    \/ \E w \in 1..Len(workers) : RuntimeIdle(w)
    \/ \E w \in 1..Len(workers) : RuntimeExit(w)
    \/ StopBegin
    \/ \E resolved \in BOOLEAN : StopAfterFlush(resolved)
    \/ StopClosed

SpecStop == Init /\ [][NextStop]_vars

\* The promises stop() awaits settle: flush resolves or gives up after its
\* allotted time, and destroyServer closes the listener.
SpecStopFair ==
    /\ Init /\ [][NextStop]_vars
    /\ WF_vars(\E resolved \in BOOLEAN : StopAfterFlush(resolved))
    /\ WF_vars(StopClosed)

Terminated(w) == w.state = "FINISHED" \/ w.killed

\* C12: stop() goes in this order: new queue work is no longer admitted, the
\* work in flight is drained, the queue is stopped, the workers are
\* terminated, the listener is closed last.  So no task submitted after the
\* drain started begins executing, stop() terminates no worker while the queue
\* is not stopped, and the listener closes only once the queue is stopped and
\* every worker is terminated.
C12_StopOrder ==
    [][ /\ stopRun.pc # "idle"
           => \A id \in (stopRun.admitted + 1)..Len(tasks) :
                 tasks[id].state = "pending" => tasks'[id].state = "pending"
        /\ stopRun' # stopRun
           => /\ \A w \in 1..Len(workers) :
                    (Terminated(workers'[w]) /\ ~Terminated(workers[w])) => stopped'
              /\ ~listening'
                    => stopped' /\ \A w \in 1..Len(workers') : Terminated(workers'[w])
      ]_vars

-----------------------------------------------------------------------------
(* Specification: database trigger registration, and the claims checked     *)
(* under it                                                                 *)

NextDatabase ==
    \/ \E e \in {"database", "firestore"} : StartEmulator(e)
    \/ \E d \in DatabaseDefs : AddRealtimeDatabaseTrigger(d)

SpecDatabase == Init /\ [][NextDatabase]_vars

\* C15: with the database emulator present, registration takes namespace and
\* path from projects/{proj}/instances/{ns}/refs{path}: projects/_/instances/
\* myns/refs/foo/bar gives namespace myns and path /foo/bar, and
\* projects/_/instances//refs/x (empty namespace) is not rejected: the
\* request is issued and the sentinel-namespace warning is logged.
C15_DatabaseNamespaceAndPath ==
    lastAdded.result.outcome \in {"request", "rejected"}
    => /\ lastAdded.name = DefDatabaseMyns.name
          => /\ lastAdded.result.outcome = "request"
             /\ lastAdded.result.ns = "myns"
             /\ lastAdded.result.path = <<"foo", "bar">>
       /\ lastAdded.name = DefDatabaseNoNamespace.name
          => /\ lastAdded.result.outcome = "request"
             /\ lastAdded.result.warned


-----------------------------------------------------------------------------
(* HTTPS invocations: the proxy between the caller and the worker's socket *)

NextHttps ==
    \/ \E defs \in DefLists : SetTriggersForTesting(defs)
    \/ HubHttps
    \/ RunNext
    \/ \E w \in 1..Len(workers) : RuntimeSocketReady(w)
    \/ \E w \in 1..Len(workers), ev \in ProxyEvents : RuntimeResponse(w, ev)
    \/ \E w \in 1..Len(workers) : RuntimeFatal(w)
    \/ \E w \in 1..Len(workers) : RuntimeIdle(w)
    \/ \E w \in 1..Len(workers) : RuntimeExit(w)

SpecHttps == Init /\ [][NextHttps]_vars

HttpsTasks == {id \in 1..Len(tasks) : tasks[id].route = "https"}

\* C17: every HTTPS invocation whose worker logged FATAL before the invocation
\* was done has answered its caller with status 500 and nothing else, and its
\* worker is killed.
C17_FatalAnswers500 ==
    \A id \in HttpsTasks :
        tasks[id].fatal
            => /\ res[tasks[id].req] = <<Response(500, "fatal")>>
               /\ workers[tasks[id].worker].killed

\* The order of an HTTPS invocation's phases; the worker is assigned in the
\* step that starts the wait for its socket.
PhaseOrder ==
    {<<"new", "queued">>, <<"queued", "awaiting-socket">>,
     <<"awaiting-socket", "proxying">>, <<"proxying", "resolved">>}

\* C18: an HTTPS invocation moves queued, worker assigned and awaiting the
\* socket, proxying, done, in that order and skipping none; it proxies, and
\* the runtime's response reaches the caller, only with a worker that has
\* signalled its socket ready; its task settles only in a step that leaves
\* its worker done (idle or finished).  A task whose trigger is unknown gets
\* no worker and is rejected from the queue.
C18_PhaseOrder ==
    [][ \A id \in 1..Len(tasks') :
            tasks'[id].route = "https" =>
            LET b == tasks'[id]
                before == IF id <= Len(tasks) THEN tasks[id].phase ELSE "new"
            IN  /\ \/ before = b.phase
                   \/ <<before, b.phase>> \in PhaseOrder
                   \/ /\ <<before, b.phase>> = <<"queued", "rejected">>
                      /\ b.worker = 0
                /\ b.phase \in {"awaiting-socket", "proxying", "resolved"}
                      => b.worker \in 1..Len(workers')
                /\ b.phase = "proxying" => workers'[b.worker].socketReady
                /\ wire'[b.req] # wire[b.req]
                      => /\ b.phase = "proxying"
                         /\ workers[b.worker].socketReady
                /\ (before # b.phase /\ b.phase = "resolved")
                      => workers'[b.worker].state \in {"IDLE", "FINISHED"}
      ]_vars

\* An HTTPS invocation went through every phase: it is resolved, its worker
\* signalled the socket, and the runtime's response reached the caller.
C18_Witness ==
    \E id \in HttpsTasks :
        /\ tasks[id].phase = "resolved" /\ tasks[id].state = "settled"
        /\ workers[tasks[id].worker].socketReady
        /\ workers[tasks[id].worker].state = "IDLE"
        /\ wire[tasks[id].req].events > 0
        /\ res[tasks[id].req] = <<Response(200, "proxied")>>

\* C19: however often and in whatever order the data, close and end events
\* of the runtime's response invoke the forwarding, the worker's headers are
\* applied to a caller's response at most once and never after its head was
\* sent, and the head is sent at most once.
C19_HeadersForwardedOnce ==
    \A r \in 1..Len(reqs) :
        /\ wire[r].late = 0
        /\ wire[r].applied <= 1
        /\ Len(res[r]) <= 1

\* The forwarding ran on data, on close and on end of one response, one of
\* them twice, and applied the headers once.
C19_Witness ==
    \E r \in 1..Len(reqs) :
        /\ wire[r].seen = ProxyEvents
        /\ wire[r].events = MaxEvents
        /\ wire[r].applied = 1
        /\ res[r] = <<Response(200, "proxied")>>

\* C20: a step of disableBackgroundTriggers keeps the set of registered names
\* and every definition, leaves every HTTPS record as it was, and leaves
\* every event-based record disabled.
C20_DisableFrame ==
    [][ DisableBackgroundTriggers
            => /\ DOMAIN triggers' = DOMAIN triggers
               /\ \A n \in DOMAIN triggers :
                    /\ triggers'[n].def = triggers[n].def
                    /\ triggers[n].def.eventTrigger => ~triggers'[n].enabled
                    /\ triggers[n].def.httpsTrigger => triggers'[n] = triggers[n]
      ]_vars

\* Background triggers were disabled with an HTTPS trigger registered: the
\* event-based record is disabled and the HTTPS record is still enabled.
C20_Witness ==
    \E n, m \in DOMAIN triggers :
        /\ triggers[n].def.httpsTrigger /\ triggers[n].enabled
        /\ triggers[m].def.eventTrigger /\ ~triggers[m].enabled


-----------------------------------------------------------------------------
(* stop() and a queue that does not drain *)

StopComplete ==
    /\ stopRun.pc = "done"
    /\ stopped
    /\ ~listening
    /\ \A w \in 1..Len(workers) : Terminated(workers[w])

\* C21: once stop() is called it completes, whether flush resolves or fails:
\* the queue is stopped, every worker is terminated and the listener is
\* closed.
C21_StopCompletes == (stopRun.pc # "idle") ~> StopComplete

\* stop() completed after flush failed: the warning was logged, work was
\* still in flight, and the worker running it was killed.
C21_Witness ==
    /\ StopComplete
    /\ stopRun.warned
    /\ \E w \in 1..Len(workers) : workers[w].killed


-----------------------------------------------------------------------------
(* Source reloads and the generation the bundles carry *)

\* connect(): the watcher is set up and the first discovery run starts.
Connect ==
    /\ loads = <<>>
    /\ LoadTriggers

\* The watcher reports a changed file: the debounced callback runs
\* loadTriggers().
WatcherChange ==
    /\ loads # <<>>
    /\ LoadTriggers

\* reloadTriggers() is called on the connected emulator.
Reload ==
    /\ loads # <<>>
    /\ ReloadTriggers

NextGeneration ==
    \/ \E defs \in DefLists : SetTriggersForTesting(defs)
    \/ HubHttps
    \/ RunNext
    \/ \E w \in 1..Len(workers) : RuntimeSocketReady(w)
    \/ \E w \in 1..Len(workers) : RuntimeIdle(w)
    \/ Connect
    \/ WatcherChange
    \/ Reload

SpecGeneration == Init /\ [][NextGeneration]_vars

\* The generations of the bundles the workers of a pool were given.
Generations(pool) ==
    {pool[w].lastArgs.triggerGeneration :
        w \in {v \in 1..Len(pool) : pool[v].lastArgs # NoArgs}}

\* C22: the generation counter never decreases, and a step that reloads the
\* source (a discovery run started after the first one, by reloadTriggers or
\* by a watched file change) builds its bundle with a generation strictly
\* greater than that of every bundle built before.
C22_ReloadRaisesGeneration ==
    [][ /\ triggerGeneration' >= triggerGeneration
        /\ (loads # <<>> /\ Len(loads') > Len(loads))
              => \A g \in Generations(workers) :
                    workers'[loads'[Len(loads')].worker].lastArgs.triggerGeneration > g
      ]_vars


-----------------------------------------------------------------------------
(* The pipes of two processes read in any interleaving *)

NextPipes ==
    \E id \in StreamIds : \E buf \in PipeChunks : PipeData(id[1], id[2], buf)

SpecPipes == Init /\ [][NextPipes]_vars

\* onData applied to the chunks of one pipe alone, in order, starting from
\* an empty buffer.
RECURSIVE Replay(_, _)
Replay(value, chunks) ==
    IF chunks = <<>> THEN [events |-> <<>>, value |-> value]
    ELSE LET r == onData(value, Head(chunks))
             rest == Replay(r.value, Tail(chunks))
         IN  [events |-> r.events \o rest.events, value |-> rest.value]

\* C23: however the chunks of the pipes of the processes interleave, the
\* records emitted for a pipe and the partial line its buffer holds are
\* those of that pipe's own chunks read alone.
C23_BuffersPerStream ==
    \A id \in StreamIds :
        LET alone == Replay(<<>>, io.chunks[id])
        IN  /\ io.events[id] = alone.events
            /\ io.value[BufferOf(id[1], id[2])] = alone.value

\* A pipe completed a line from two chunks and holds a new partial line
\* while another pipe of the same process and a pipe of the other process
\* hold partial lines of their own.
C23_Witness ==
    \E id \in StreamIds, other \in StreamIds, far \in StreamIds :
        /\ id[1] = other[1] /\ id[2] # other[2] /\ far[1] # id[1]
        /\ Len(io.chunks[id]) = 2
        /\ io.events[id] # <<>>
        /\ io.value[id] # <<>>
        /\ \A i \in 1..Len(io.chunks[id][1]) : io.chunks[id][1][i] # ByteLF
        /\ io.value[other] # <<>>
        /\ io.value[far] # <<>>


-----------------------------------------------------------------------------
(* Discovery runs whose diagnostic process may fail *)

NextSettle ==
    \/ LoadTriggers
    \/ ReloadTriggers
    \/ \E k \in 1..Len(loads) : \E defs \in DefinitionLists : TriggersParsed(k, defs)
    \/ \E k \in 1..Len(loads) : DiscoveryTimeout(k)
    \/ \E k \in 1..Len(loads) : CollaboratorAccepts(k)
    \/ \E k \in 1..Len(loads) : CollaboratorRejects(k)
    \/ \E w \in 1..Len(workers) : RuntimeFatal(w)
    \/ \E w \in 1..Len(workers) : RuntimeExit(w)
    \/ \E e \in {"database", "firestore"} : StartEmulator(e)

\* The promises a discovery run awaits settle: the wait for the log ends
\* with the log or with its bound, and a collaborator's call is answered or
\* fails.
SpecSettle ==
    /\ Init /\ [][NextSettle]_vars
    /\ \A k \in 1..MaxLoads :
         /\ WF_vars(\/ \E defs \in DefinitionLists : k <= Len(loads) /\ TriggersParsed(k, defs)
                    \/ k <= Len(loads) /\ DiscoveryTimeout(k))
         /\ WF_vars(\/ k <= Len(loads) /\ CollaboratorAccepts(k)
                    \/ k <= Len(loads) /\ CollaboratorRejects(k))

Settles(k) == k <= Len(loads) /\ loads[k].pc \in {"done", "failed"}

-----------------------------------------------------------------------------
(* Disabled triggers and the routes that reach them *)

Disabled(trigs, name) ==
    /\ name \in DOMAIN trigs
    /\ trigs[name].def.eventTrigger
    /\ ~trigs[name].enabled

\* C25: no request, on any route, submits a task for an event trigger that
\* is disabled when the request arrives; in particular a fan-out request
\* submits none for a disabled subscriber.
C25_DisabledNeverSubmitted ==
    [][ \A id \in (Len(tasks) + 1)..Len(tasks') :
            ~Disabled(triggers, tasks'[id].triggerId) ]_vars

\* C26: a step in which a queued background request is rejected with 404 for
\* its project id leaves the pool as it was: no worker is spawned, reused or
\* given a bundle, and the task holds no worker.
C26_MismatchStartsNoWorker ==
    [][ \A id \in 1..Len(tasks) :
            (/\ tasks[id].route = "background"
             /\ tasks[id].state = "pending" /\ tasks'[id].state = "settled"
             /\ res'[tasks[id].req] = <<Response(404, "")>>)
            => /\ workers' = workers
               /\ tasks'[id].worker = 0 ]_vars


-----------------------------------------------------------------------------
(* Fan-out subscribers set up by discovery *)

\* What the diagnostic runtime reports here: an auth function exported at
\* the top level, and one exported in a group (name grp-au, entry point
\* grp.au).
FanoutLists == {<<DefAuth>>, <<DefGroupedAuth, DefHttps>>}

NextFanout ==
    \/ LoadTriggers
    \/ \E k \in 1..Len(loads) : \E defs \in FanoutLists : TriggersParsed(k, defs)
    \/ HubMulticast
    \/ RunNext
    \/ \E w \in 1..Len(workers) : RuntimeIdle(w)

SpecFanout == Init /\ [][NextFanout]_vars

\* C27: every subscriber in the fan-out map is the name of a record in the
\* registry, and so is the trigger of every task a fan-out request enqueued.
C27_SubscribersRegistered ==
    /\ \A key \in DOMAIN multicastTriggers :
          \A i \in 1..Len(multicastTriggers[key]) :
              multicastTriggers[key][i] \in DOMAIN triggers
    /\ \A id \in 1..Len(tasks) :
          tasks[id].route = "multicast" => tasks[id].triggerId \in DOMAIN triggers


-----------------------------------------------------------------------------
(* Discovery runs that overlap *)

NoDuplicates(seq) == \A i, j \in 1..Len(seq) : seq[i] = seq[j] => i = j

\* C28: as long as no run has failed, also when runs overlap, no name has
\* been sent to a collaborator twice and no subscriber list holds a trigger
\* twice.
C28_SetUpAtMostOnce ==
    (\A k \in 1..Len(loads) : loads[k].pc # "failed")
    => /\ \A i, j \in 1..Len(calls) : calls[i].name = calls[j].name => i = j
       /\ \A key \in DOMAIN multicastTriggers : NoDuplicates(multicastTriggers[key])


-----------------------------------------------------------------------------
(* The response to a background request *)

\* C29: a background request is answered at most once: once a response was
\* written to it, no FATAL log, worker-done signal or exit writes another.
C29_OneResponse ==
    [][ \A r \in 1..Len(reqs') :
            MatchesBackground(reqs'[r])
            => /\ Len(res'[r]) <= 1
               /\ (r <= Len(reqs) /\ res[r] # <<>>) => res'[r] = res[r] ]_vars

\* A background request was answered 500 for a FATAL log; its worker logged
\* FATAL a second time and then exited, and the answer is still the only
\* one.
C29_Witness ==
    \E id \in 1..Len(tasks) :
        /\ tasks[id].route = "background" /\ tasks[id].fatal
        /\ res[tasks[id].req] = <<Response(500, "fatal")>>
        /\ workers[tasks[id].worker].fatals = MaxFatals
        /\ workers[tasks[id].worker].state = "FINISHED"

=============================================================================
